---- MODULE Spec2Model ----
(***************************************************************************)
(* A model of clog.h: the per-module level gate (LOG_D/I/W/E), the sink    *)
(* selection (clog_init_file, clog_init_console, clog_close_file), the     *)
(* template expander (_clog_format with _clog_append_str/_clog_append_int/ *)
(* _clog_append_time/_clog_basename) and the log call (_clog_log).         *)
(*                                                                         *)
(* C strings are sequences of one-character strings.  A data pointer is a  *)
(* number: a stack buffer (BUF, MESSAGE_BUF) or a heap region (1, 2, ...). *)
(***************************************************************************)
EXTENDS Integers, Sequences, FiniteSets, TLC

VARIABLES
    fileSupport,  \* CLOG_FILE_SUPPORT is defined
    timeSupport,  \* CLOG_TIME_SUPPORT is defined
    silent,       \* CLOG_SILENT is defined
    win32,        \* _WIN32 is defined
    fd,           \* _clog_logger.fd
    fun,          \* _clog_logger.fun
    fmt,          \* _clog_logger.fmt
    openFds,      \* descriptors open in the process
    stderr,       \* diagnostics written by _clog_err, oldest first
    ops,          \* number of sink selection calls made so far
    logs,         \* number of log macro calls made so far
    last,         \* what the most recent API call did
    ctx,          \* arguments of the _clog_format call in progress
    fs,           \* locals of the _clog_format call in progress
    fpc,          \* position of the _clog_format call in progress
    now,          \* the wall clock, as time(NULL) reads it
    tmbuf,        \* the static struct tm localtime() fills and returns
    th,           \* per thread: position and locals of its log call
    sinkData,     \* what the sink has received, oldest first
    calls         \* the log calls made so far, oldest first

vars == <<fileSupport, timeSupport, silent, win32, fd, fun, fmt, openFds,
          stderr, ops, logs, last, ctx, fs, fpc, now, tmbuf, th, sinkData,
          calls>>

logger == <<fd, fun, fmt, openFds, stderr, ops, logs, last>>
build == <<fileSupport, timeSupport, silent, win32>>
conc == <<now, tmbuf, th>>
history == <<sinkData, calls>>

-----------------------------------------------------------------------------
(* Bounds of the model.                                                    *)

\* Stand-in for the 4096-byte stack buffer `buf` of _clog_log.
MsgBufSize == 4
\* Stand-in for the 4096-byte stack buffer `message_buf` of _clog_log.
FmtBufSize == 20
\* Size of the scratch buffer handed to _clog_format when it is explored
\* on its own.
ScratchSize == 4
\* Longest template over CoreChars explored by the expander specification.
MaxFmtLen == 4
\* Longest template over all of FmtChars explored.
ShortFmtLen == 2
\* Descriptors below this number exist; open() fails with EMFILE beyond.
MaxFd == 5
\* Sink selection calls (init, close) per behaviour.
MaxOps == 2
\* Log macro calls per behaviour.
MaxLogs == 1
\* Latest reading of the wall clock.
MaxClock == 2
\* Log macro calls per behaviour when the sink's content is kept.
MaxCalls == 3
\* Longest source path explored on its own.
MaxPathLen == 4

-----------------------------------------------------------------------------
(* Characters and strings.                                                 *)

\* The null function pointer.
NULL == "NULL"

\* Data pointers: the null pointer, the two stack buffers of _clog_log, and
\* heap regions, which are numbered from 1.
NULLPTR == 0
BUF == -1
MESSAGE_BUF == -2

Str1(c) == <<c>>

Digits == <<"0", "1", "2", "3", "4", "5", "6", "7", "8", "9">>

RECURSIVE DecNat(_)
DecNat(n) == IF n < 10 THEN <<Digits[n + 1]>>
             ELSE DecNat(n \div 10) \o <<Digits[(n % 10) + 1]>>

\* The text snprintf("%ld", d) produces.
Dec(d) == IF d < 0 THEN <<"-">> \o DecNat(-d) ELSE DecNat(d)

\* Index of the last occurrence of c in s, 0 when there is none (strrchr).
strrchr(s, c) ==
    IF \E k \in 1..Len(s) : s[k] = c
    THEN CHOOSE k \in 1..Len(s) :
            s[k] = c /\ \A j \in (k + 1)..Len(s) : s[j] # c
    ELSE 0

-----------------------------------------------------------------------------
(* enum clog_level and CLOG_LEVEL_NAMES.                                   *)

LEVEL_DEBUG == 0
LEVEL_INFO == 1
LEVEL_WARN == 2
LEVEL_ERROR == 3
LEVEL_NONE == 4

Levels == LEVEL_DEBUG..LEVEL_NONE
Severities == LEVEL_DEBUG..LEVEL_ERROR

CLOG_LEVEL_NAMES == <<<<"D">>, <<"I">>, <<"W">>, <<"E">>>>

CLOG_DEFAULT_FORMAT ==
    IF timeSupport
    THEN <<"%", "d", " ", "%", "t", ".", "%", "h", " ", "%", "l", ":", " ",
           "%", "e", ":", " ", "%", "f", "(", "%", "n", ")", ":", " ",
           "%", "g", ":", " ", "%", "m", "\n">>
    ELSE <<"%", "l", ":", " ", "%", "e", ":", " ", "%", "f", "(", "%", "n",
           ")", ":", " ", "%", "g", ":", " ", "%", "m", "\n">>

CLOG_DEFAULT_MESSAGE_FUNCTION == "printf"

-----------------------------------------------------------------------------
(* The growable buffer of one expansion.                                   *)
(*   result    the pointer *dst: the scratch buffer or a heap region       *)
(*   str       the string stored at *dst                                   *)
(*   size      the size of the storage *dst points to                      *)
(*   cur_size  the capacity _clog_format tracks                            *)
(*   orig      the string stored in the scratch buffer orig_buf            *)
(*   live      heap regions allocated and not yet released                 *)
(*   allocd    heap regions allocated so far                               *)
(*   released  heap regions released by realloc, oldest first              *)
(*   overrun   a strcpy/strcat wrote past the end of its storage           *)

\* GrowSize with the loop test `>` for `>=`: no room for the terminator.
RECURSIVE GrowSizeNoTerminator(_, _)
GrowSizeNoTerminator(len, new_size) ==
    IF len > new_size THEN GrowSizeNoTerminator(len, new_size * 2)
    ELSE new_size

\* The loop of _clog_append_str: double until length + terminator fits.
RECURSIVE GrowSize(_, _)
GrowSize(len, new_size) ==
    IF len >= new_size THEN GrowSize(len, new_size * 2) ELSE new_size

NewRegion(b) == IF b.allocd = {} THEN 2
                ELSE 1 + CHOOSE r \in b.allocd : \A q \in b.allocd : q <= r

\* _clog_append_str without the strcpy into the region malloc returned.
_clog_append_strNoCopy(b, orig_buf, src, moves) ==
    LET new_size == GrowSize(Len(b.str) + Len(src), b.cur_size)
        grown ==
            IF new_size # b.cur_size
            THEN IF b.result = orig_buf
                 THEN [b EXCEPT !.result = NewRegion(b),
                                !.str = <<>>,
                                !.size = new_size,
                                !.live = b.live \cup {NewRegion(b)},
                                !.allocd = b.allocd \cup {NewRegion(b)},
                                !.overrun = b.overrun
                                            \/ Len(b.orig) + 1 > new_size]
                 ELSE IF moves
                      THEN [b EXCEPT !.result = NewRegion(b),
                                     !.size = new_size,
                                     !.live = (b.live \ {b.result})
                                              \cup {NewRegion(b)},
                                     !.allocd = b.allocd \cup {NewRegion(b)},
                                     !.released = Append(b.released, b.result)]
                      ELSE [b EXCEPT !.size = new_size]
            ELSE b
        cat == grown.str \o src
    IN  [grown EXCEPT !.str = cat,
                      !.orig = IF grown.result = orig_buf THEN cat
                               ELSE grown.orig,
                      !.cur_size = new_size,
                      !.overrun = grown.overrun \/ Len(cat) + 1 > grown.size]

\* _clog_append_str(dst, orig_buf, src, cur_size); `moves` is the
\* allocator's choice for realloc: hand out a new region or resize in place.
_clog_append_str(b, orig_buf, src, moves) ==
    LET new_size == GrowSize(Len(b.str) + Len(src), b.cur_size)
        grown ==
            IF new_size # b.cur_size
            THEN IF b.result = orig_buf
                 THEN [b EXCEPT !.result = NewRegion(b),
                                !.str = b.orig,
                                !.size = new_size,
                                !.live = b.live \cup {NewRegion(b)},
                                !.allocd = b.allocd \cup {NewRegion(b)},
                                !.overrun = b.overrun
                                            \/ Len(b.orig) + 1 > new_size]
                 ELSE IF moves
                      THEN [b EXCEPT !.result = NewRegion(b),
                                     !.size = new_size,
                                     !.live = (b.live \ {b.result})
                                              \cup {NewRegion(b)},
                                     !.allocd = b.allocd \cup {NewRegion(b)},
                                     !.released = Append(b.released, b.result)]
                      ELSE [b EXCEPT !.size = new_size]
            ELSE b
        cat == grown.str \o src
    IN  [grown EXCEPT !.str = cat,
                      !.orig = IF grown.result = orig_buf THEN cat
                               ELSE grown.orig,
                      !.cur_size = new_size,
                      !.overrun = grown.overrun \/ Len(cat) + 1 > grown.size]

\* Size of the conversion buffer of _clog_append_int.
IntBufLen == 40

\* _clog_append_int(dst, orig_buf, d, cur_size)
_clog_append_int(b, orig_buf, d, moves) ==
    IF Len(Dec(d)) >= IntBufLen THEN b
    ELSE _clog_append_str(b, orig_buf, Dec(d), moves)

\* _clog_append_time(dst, orig_buf, lt, fmt, cur_size); `text` is what
\* strftime writes for the pattern at the current local time, <<>> when it
\* reports 0.
_clog_append_time(b, orig_buf, text, moves) ==
    IF Len(text) > 0 THEN _clog_append_str(b, orig_buf, text, moves)
    ELSE b

\* _clog_basename that looks for the last backslash in the whole path, not
\* in what follows the last slash.
_clog_basenameWholePath(path) ==
    LET slash == strrchr(path, "/")
        p1 == IF slash # 0 THEN SubSeq(path, slash + 1, Len(path)) ELSE path
        bslash == strrchr(path, "\\")
    IN  IF win32 /\ bslash # 0 THEN SubSeq(path, bslash + 1, Len(path)) ELSE p1

\* _clog_basename(path)
_clog_basename(path) ==
    LET slash == strrchr(path, "/")
        p1 == IF slash # 0 THEN SubSeq(path, slash + 1, Len(path)) ELSE path
        bslash == strrchr(p1, "\\")
    IN  IF win32 /\ bslash # 0 THEN SubSeq(p1, bslash + 1, Len(p1)) ELSE p1

-----------------------------------------------------------------------------
(* _clog_format.  c is the call's arguments and clock readings:            *)
(*   sfile, sline, sfunction, smodule, level (the name), message,          *)
(*   time, date (strftime's output for time_fmt and date_fmt), ticks,      *)
(*   moves (the allocator's realloc behaviour).                            *)

\* Locals after `result[0] = 0`, before the loop.
FormatEntry(buf, buf_size) ==
    [i |-> 0, state |-> "NORMAL", result |-> buf, str |-> <<>>,
     size |-> buf_size, cur_size |-> buf_size, orig |-> <<>>,
     live |-> {}, allocd |-> {}, released |-> <<>>, overrun |-> FALSE]

\* Substitute with the arguments of the 'e' and 'g' cases exchanged.
SubstituteSwapped(b, buf, ch, c) ==
    CASE ch = "%" -> _clog_append_str(b, buf, <<"%">>, c.moves)
      [] ch = "t" /\ timeSupport -> _clog_append_time(b, buf, c.time, c.moves)
      [] ch = "d" /\ timeSupport -> _clog_append_time(b, buf, c.date, c.moves)
      [] ch = "h" /\ timeSupport -> _clog_append_int(b, buf, c.ticks, c.moves)
      [] ch = "l" -> _clog_append_str(b, buf, c.level, c.moves)
      [] ch = "e" -> _clog_append_str(b, buf, c.sfunction, c.moves)
      [] ch = "g" -> _clog_append_str(b, buf, c.smodule, c.moves)
      [] ch = "n" -> _clog_append_int(b, buf, c.sline, c.moves)
      [] ch = "f" -> _clog_append_str(b, buf, _clog_basename(c.sfile), c.moves)
      [] ch = "m" -> _clog_append_str(b, buf, c.message, c.moves)
      [] OTHER -> b

\* Substitute with a default case that copies an unknown selector through.
SubstituteEcho(b, buf, ch, c) ==
    CASE ch = "%" -> _clog_append_str(b, buf, <<"%">>, c.moves)
      [] ch = "t" /\ timeSupport -> _clog_append_time(b, buf, c.time, c.moves)
      [] ch = "d" /\ timeSupport -> _clog_append_time(b, buf, c.date, c.moves)
      [] ch = "h" /\ timeSupport -> _clog_append_int(b, buf, c.ticks, c.moves)
      [] ch = "l" -> _clog_append_str(b, buf, c.level, c.moves)
      [] ch = "e" -> _clog_append_str(b, buf, c.smodule, c.moves)
      [] ch = "g" -> _clog_append_str(b, buf, c.sfunction, c.moves)
      [] ch = "n" -> _clog_append_int(b, buf, c.sline, c.moves)
      [] ch = "f" -> _clog_append_str(b, buf, _clog_basename(c.sfile), c.moves)
      [] ch = "m" -> _clog_append_str(b, buf, c.message, c.moves)
      [] OTHER -> _clog_append_str(b, buf, Str1(ch), c.moves)

\* The switch of the SUBST state.
Substitute(b, buf, ch, c) ==
    CASE ch = "%" -> _clog_append_str(b, buf, <<"%">>, c.moves)
      [] ch = "t" /\ timeSupport -> _clog_append_time(b, buf, c.time, c.moves)
      [] ch = "d" /\ timeSupport -> _clog_append_time(b, buf, c.date, c.moves)
      [] ch = "h" /\ timeSupport -> _clog_append_int(b, buf, c.ticks, c.moves)
      [] ch = "l" -> _clog_append_str(b, buf, c.level, c.moves)
      [] ch = "e" -> _clog_append_str(b, buf, c.smodule, c.moves)
      [] ch = "g" -> _clog_append_str(b, buf, c.sfunction, c.moves)
      [] ch = "n" -> _clog_append_int(b, buf, c.sline, c.moves)
      [] ch = "f" -> _clog_append_str(b, buf, _clog_basename(c.sfile), c.moves)
      [] ch = "m" -> _clog_append_str(b, buf, c.message, c.moves)
      [] OTHER -> b

\* FormatIter that emits the '%' as soon as it is seen in the NORMAL state.
FormatIterEager(b, buf, ch, c) ==
    IF b.state = "NORMAL"
    THEN IF ch = "%"
         THEN [_clog_append_str(b, buf, <<"%">>, c.moves)
                 EXCEPT !.state = "SUBST", !.i = b.i + 1]
         ELSE [_clog_append_str(b, buf, Str1(ch), c.moves)
                 EXCEPT !.i = b.i + 1]
    ELSE [Substitute(b, buf, ch, c) EXCEPT !.state = "NORMAL", !.i = b.i + 1]

\* One iteration of the loop over logger->fmt, on character ch.
FormatIter(b, buf, ch, c) ==
    IF b.state = "NORMAL"
    THEN IF ch = "%"
         THEN [b EXCEPT !.state = "SUBST", !.i = b.i + 1]
         ELSE [_clog_append_str(b, buf, Str1(ch), c.moves)
                 EXCEPT !.i = b.i + 1]
    ELSE [Substitute(b, buf, ch, c) EXCEPT !.state = "NORMAL", !.i = b.i + 1]

RECURSIVE FormatLoop(_, _, _, _)
FormatLoop(b, buf, t, c) ==
    IF b.i < Len(t) THEN FormatLoop(FormatIter(b, buf, t[b.i + 1], c), buf, t, c)
    ELSE b

\* The locals of _clog_format at its return statement.
_clog_format(t, buf, buf_size, c) ==
    FormatLoop(FormatEntry(buf, buf_size), buf, t, c)

-----------------------------------------------------------------------------
(* _clog_err and the sink selection API.                                   *)

\* _clog_err(fmt, ...): stderr after writing the diagnostic `kind`.
_clog_err(kind) == IF silent THEN stderr ELSE Append(stderr, kind)

\* open(path, O_CREAT | O_WRONLY | O_APPEND): the lowest free descriptor,
\* -1 when `fails` (the path cannot be opened) or none is left.
POSIX_OPEN(fails) ==
    IF fails \/ \A d \in 0..(MaxFd - 1) : d \in openFds THEN -1
    ELSE CHOOSE d \in 0..(MaxFd - 1) :
            d \notin openFds /\ \A e \in 0..(d - 1) : e \in openFds

clog_init_file(fails) ==
    /\ ops < MaxOps
    /\ ops' = ops + 1
    /\ IF fileSupport
       THEN LET newfd == POSIX_OPEN(fails)
            IN  IF newfd = -1
                THEN /\ stderr' = _clog_err("open")
                     /\ last' = [op |-> "init_file", ret |-> 1,
                                 tried |-> TRUE, opened |-> FALSE,
                                 unopenable |-> fails]
                     /\ UNCHANGED <<fd, fun, openFds>>
                ELSE /\ fd' = newfd
                     /\ fun' = NULL
                     /\ openFds' = openFds \cup {newfd}
                     /\ last' = [op |-> "init_file", ret |-> 1,
                                 tried |-> TRUE, opened |-> TRUE,
                                 unopenable |-> fails]
                     /\ UNCHANGED stderr
       ELSE /\ fun' = NULL
            /\ last' = [op |-> "init_file", ret |-> 0, tried |-> FALSE,
                        opened |-> FALSE, unopenable |-> fails]
            /\ UNCHANGED <<fd, openFds, stderr>>
    /\ UNCHANGED <<build, fmt, logs, ctx, fs, fpc, conc, history>>

clog_init_console(f) ==
    /\ ops < MaxOps
    /\ ops' = ops + 1
    /\ IF f = NULL
       THEN /\ stderr' = _clog_err("pointer")
            /\ last' = [op |-> "init_console", ret |-> 1, arg |-> f]
            /\ UNCHANGED <<fd, fun>>
       ELSE /\ fd' = IF fileSupport THEN 0 ELSE fd
            /\ fun' = f
            /\ last' = [op |-> "init_console", ret |-> 0, arg |-> f]
            /\ UNCHANGED stderr
    /\ UNCHANGED <<build, fmt, openFds, logs, ctx, fs, fpc, conc, history>>

clog_close_file ==
    /\ ops < MaxOps
    /\ ops' = ops + 1
    /\ IF fileSupport /\ fd # 0
       THEN /\ openFds' = openFds \ {fd}
            /\ last' = [op |-> "close_file", closed |-> fd,
                        wasOpen |-> fd \in openFds]
       ELSE /\ last' = [op |-> "close_file", closed |-> 0,
                        wasOpen |-> FALSE]
            /\ UNCHANGED openFds
    /\ UNCHANGED <<build, fd, fun, fmt, stderr, logs, ctx, fs, fpc, conc, history>>

-----------------------------------------------------------------------------
(* _clog_log.                                                              *)

\* Largest value of the model's size_t.
SIZE_MAX == 2147483647

\* (size_t)r for an int r: a negative value wraps to the top of the range.
SizeT(r) == IF r < 0 THEN SIZE_MAX + (r + 1) ELSE r

RECURSIVE Fill(_, _)
Fill(ch, n) == IF n <= 0 THEN <<>> ELSE <<ch>> \o Fill(ch, n - 1)

\* What the console function prints for the format string s when it is
\* called with no further arguments: "%%" prints "%"; any other conversion
\* reads an argument that was never passed, and prints `ub`.
RECURSIVE Printf(_, _)
Printf(s, ub) ==
    IF s = <<>> THEN <<>>
    ELSE IF Head(s) # "%" THEN <<Head(s)>> \o Printf(Tail(s), ub)
    ELSE IF Len(s) = 1 THEN ub
    ELSE IF s[2] = "%" THEN <<"%">> \o Printf(SubSeq(s, 3, Len(s)), ub)
    ELSE ub \o Printf(SubSeq(s, 3, Len(s)), ub)

\* TooLarge without the conversion to size_t.
TooLargeSigned(result, buf_size) == result >= buf_size

\* if ((size_t)result >= buf_size)
TooLarge(result, buf_size) == SizeT(result) >= buf_size

\* WriteFailed that takes anything but a full write for a failure.
WriteFailedShort(result, message) == result # Len(message)

\* if (result == -1)
WriteFailed(result, message) == result = -1

\* FreeMessage without the comparison against the scratch buffer.
FreeMessageAlways(message) == <<message>>

\* if (message != message_buf) free(message): the pointers passed to free.
FreeMessage(message) == IF message # MESSAGE_BUF THEN <<message>> ELSE <<>>

\* if (dynbuf != buf) free(dynbuf): the pointers passed to free.
FreeDynbuf(dynbuf) == IF dynbuf # BUF THEN <<dynbuf>> ELSE <<>>

\* The inputs of one call of _clog_log, in `in`:
\*   sfile, sline, sfunction, smodule, level   the arguments
\*   text    the message fmt and its arguments format to
\*   r1      what the first vsnprintf returns: Len(text), or -1
\*   r2      what the second vsnprintf, on the used-up va_list, returns
\*   time, date, ticks, moves   as for _clog_format
\*   sinkOk  the sink's delivery succeeds
\*   ub      what the console function prints for a stray conversion
\* The value is the record of what the call did.
_clog_log(in) ==
    LET buf_size0 == MsgBufSize
        overflow == TooLarge(in.r1, buf_size0)
        buf_size == IF overflow THEN SizeT(in.r1 + 1) ELSE buf_size0
        dynbuf == IF overflow THEN 1 ELSE BUF
        result1 == IF overflow THEN in.r2 ELSE in.r1
        \* the string in dynbuf after the formatting step
        dyntext == IF ~overflow THEN in.text
                   ELSE IF in.r2 = Len(in.text) THEN in.text
                   ELSE Fill("?", in.r2)
        base == [invoked |-> TRUE, dynbuf |-> dynbuf, buf_size |-> buf_size,
                 allocd |-> IF overflow THEN {1} ELSE {},
                 released |-> <<>>, sink |-> "none", wfd |-> 0,
                 emitted |-> <<>>, line |-> <<>>, message |-> NULLPTR,
                 user |-> dyntext, overrun |-> FALSE]
    IN  IF overflow /\ TooLarge(result1, buf_size)
        THEN [path |-> "failed1", errs |-> <<"format1">>,
              frees |-> <<dynbuf>>, result |-> result1] @@ base
        ELSE
        LET f == _clog_format(fmt, MESSAGE_BUF, FmtBufSize,
                    [sfile |-> in.sfile, sline |-> in.sline,
                     sfunction |-> in.sfunction, smodule |-> in.smodule,
                     level |-> CLOG_LEVEL_NAMES[in.level + 1],
                     message |-> dyntext, time |-> in.time,
                     date |-> in.date, ticks |-> in.ticks,
                     moves |-> in.moves])
            message == f.result
            freeDyn == FreeDynbuf(dynbuf)
        IN  IF message = NULLPTR
            THEN [path |-> "failed2", errs |-> <<"format2">>,
                  frees |-> freeDyn, result |-> result1,
                  allocd |-> base.allocd \cup f.allocd,
                  released |-> f.released] @@ base
            ELSE
            LET toFile == fileSupport /\ fd # 0
                toFun == ~toFile /\ fun # NULL
                result == IF toFile
                          THEN IF fd \in openFds /\ in.sinkOk
                               THEN Len(f.str) ELSE -1
                          ELSE IF toFun
                          THEN IF in.sinkOk THEN Len(Printf(f.str, in.ub))
                               ELSE -1
                          ELSE result1
                delivered == (toFile \/ toFun) /\ result # -1
            IN  [path |-> "delivered",
                 errs |-> IF WriteFailed(result, f.str) THEN <<"write">>
                          ELSE <<>>,
                 frees |-> FreeMessage(message) \o freeDyn,
                 result |-> result,
                 allocd |-> base.allocd \cup f.allocd,
                 released |-> f.released,
                 sink |-> IF toFile THEN "file"
                          ELSE IF toFun THEN "console" ELSE "none",
                 wfd |-> IF toFile THEN fd ELSE 0,
                 line |-> f.str,
                 message |-> message,
                 overrun |-> f.overrun,
                 emitted |-> IF ~delivered THEN <<>>
                             ELSE IF toFile THEN f.str
                             ELSE Printf(f.str, in.ub)] @@ base

-----------------------------------------------------------------------------
(* The log macros.                                                         *)

\* Gate with `<` for `<=`.
GateStrict(module_level, sev) == module_level < sev

\* if (clog_control_block_##module.module_level <= LEVEL_x)
Gate(module_level, sev) == module_level <= sev

\* The call site of the log macros: __FILE__, __LINE__, __FUNCTION__.
CallSite == [sfile |-> <<"s", "/", "m">>, sline |-> 42,
             sfunction |-> <<"f">>]

\* What the two vsnprintf calls may return for a message of length n: the
\* first its length or -1; the second, reached only when the first does not
\* fit and run on a va_list the first has used up, anything.
Passes(n) ==
    IF n < MsgBufSize THEN {<<n, n>>, <<-1, -1>>}
    ELSE {<<n, n>>, <<n, 1>>, <<n, n + 1>>, <<n, -1>>, <<-1, -1>>}

\* The inputs of a call of the log macro of level sev that are explored:
\* with every macro, a module of each level and a plain message that is
\* delivered; with LOG_E, a module at LEVEL_DEBUG and
\*   a short message that formats or fails, with a sink that works or fails,
\*   a message with a percent sign,
\*   a long message with every outcome of the two formatting passes,
\*   a message one short of the stack buffer's size, and one of that size,
\*   a long module name, with an allocator that moves or resizes in place.
LogInputs(sev) ==
    LET plain == [smodule |-> <<"N">>, module_level |-> LEVEL_DEBUG,
                  text |-> <<"x">>, r1 |-> 1, r2 |-> 1, sinkOk |-> TRUE,
                  moves |-> TRUE, ub |-> <<>>]
        long == Fill("a", MsgBufSize + 2)
    IN  {[plain EXCEPT !.module_level = l] : l \in Levels}
        \cup
        (IF sev # LEVEL_ERROR THEN {}
         ELSE {[plain EXCEPT !.r1 = p[1], !.r2 = p[2], !.sinkOk = ok] :
                  p \in Passes(1), ok \in BOOLEAN}
              \cup {[plain EXCEPT !.text = <<"5", "%">>, !.r1 = 2, !.r2 = 2,
                                  !.ub = ub] : ub \in {<<>>, <<"?">>}}
              \cup {[plain EXCEPT !.text = long, !.r1 = p[1], !.r2 = p[2],
                                  !.sinkOk = ok] :
                       p \in Passes(Len(long)), ok \in BOOLEAN}
              \cup {[plain EXCEPT !.text = Fill("b", n), !.r1 = n, !.r2 = n] :
                       n \in {MsgBufSize - 1, MsgBufSize}}
              \cup {[plain EXCEPT !.smodule = Fill("M", FmtBufSize),
                                  !.text = t, !.r1 = Len(t), !.r2 = Len(t),
                                  !.moves = mv] :
                       t \in {<<"x">>, long}, mv \in BOOLEAN})

NotInvoked == [invoked |-> FALSE, path |-> "gated", errs |-> <<>>,
               frees |-> <<>>, allocd |-> {}, released |-> <<>>,
               sink |-> "none", emitted |-> <<>>]

\* The body shared by LOG_D, LOG_I, LOG_W and LOG_E, on the inputs `in`;
\* sev is the macro's level.
LogCall(sev, in) ==
    /\ logs' = logs + 1
    /\ LET tag == [op |-> "log", sev |-> sev,
                   module_level |-> in.module_level]
       IN  IF Gate(in.module_level, sev)
           THEN LET out == _clog_log(
                       [sfile |-> CallSite.sfile, sline |-> CallSite.sline,
                        sfunction |-> CallSite.sfunction,
                        level |-> sev,
                        time |-> <<"9">>, date |-> <<"8">>, ticks |-> 7]
                       @@ in)
                IN  /\ stderr' = IF out.errs = <<>> THEN stderr
                                 ELSE _clog_err(out.errs[1])
                    /\ last' = tag @@ out
                                @@ [text |-> in.text, r1 |-> in.r1,
                                    r2 |-> in.r2, sinkOk |-> in.sinkOk]
           ELSE /\ last' = tag @@ NotInvoked
                /\ UNCHANGED stderr
    /\ UNCHANGED <<build, fd, fun, fmt, openFds, ops, ctx, fs, fpc, conc>>

\* A log macro of level sev, the sink's content not kept.
LogMacro(sev) ==
    /\ logs < MaxLogs
    /\ \E in \in LogInputs(sev) : LogCall(sev, in)
    /\ UNCHANGED history

LOG_D == LogMacro(LEVEL_DEBUG)
LOG_I == LogMacro(LEVEL_INFO)
LOG_W == LogMacro(LEVEL_WARN)
LOG_E == LogMacro(LEVEL_ERROR)

-----------------------------------------------------------------------------
(* The logger: any sequence of API calls on the default logger.            *)

NoFormat == [i |-> 0]

\* The threads of the program, none of them in a log call.
Threads == {1, 2}
NotCalling == [pc |-> "idle"]

\* Seconds in a day of the model's calendar.
DayLen == 2

\* localtime(&t): the broken-down time, stored in static storage.
localtime(t) == [tm_yday |-> t \div DayLen, tm_sec |-> t % DayLen]

\* strftime(buf, CLOG_DATETIME_LENGTH, pattern, lt) for the logger's
\* date_fmt and time_fmt.
strftime(pattern, lt) ==
    IF pattern = "date_fmt" THEN Dec(lt.tm_yday) ELSE Dec(lt.tm_sec)

Init ==
    /\ fileSupport \in BOOLEAN
    /\ timeSupport \in BOOLEAN
    /\ silent \in BOOLEAN
    /\ win32 = FALSE
    /\ fd = 0
    /\ fun = CLOG_DEFAULT_MESSAGE_FUNCTION
    /\ fmt = CLOG_DEFAULT_FORMAT
    /\ openFds = {0, 1, 2}
    /\ stderr = <<>>
    /\ ops = 0
    /\ logs = 0
    /\ last = [op |-> "none"]
    /\ ctx = NoFormat
    /\ fs = NoFormat
    /\ fpc = "idle"
    /\ now = 0
    /\ tmbuf = localtime(0)
    /\ th = [i \in Threads |-> NotCalling]
    /\ sinkData = <<>>
    /\ calls = <<>>

Next ==
    \/ \E fails \in BOOLEAN : clog_init_file(fails)
    \/ \E f \in {NULL, "printf", "con_output"} : clog_init_console(f)
    \/ clog_close_file
    \/ LOG_D
    \/ LOG_I
    \/ LOG_W
    \/ LOG_E

Spec == Init /\ [][Next]_vars

-----------------------------------------------------------------------------
(* The expander alone: _clog_format on every template up to a length, one  *)
(* loop iteration per step.                                                *)

FmtChars == {"%", "l", "e", "g", "n", "f", "m", "t", "d", "h", "z"}
CoreChars == {"%", "l", "e", "n", "f", "m", "t", "z"}

SeqsUpTo(S, n) == UNION {[1..k -> S] : k \in 0..n}

Templates == SeqsUpTo(CoreChars, MaxFmtLen) \cup SeqsUpTo(FmtChars, ShortFmtLen)

Contexts ==
    {[sfile |-> <<"/", "a", "/", "c">>, sline |-> 7, sfunction |-> <<"f">>,
      smodule |-> <<"N", "E", "T">>, sev |-> LEVEL_ERROR,
      message |-> <<"x">>, time |-> <<"9">>, date |-> <<"8", "8">>,
      ticks |-> 0],
     [sfile |-> <<"a", "/", "b", "\\", "c">>, sline |-> 120,
      sfunction |-> <<"g", "o">>, smodule |-> <<"M">>, sev |-> LEVEL_DEBUG,
      message |-> Fill("y", (2 * ScratchSize) + 1), time |-> <<>>,
      date |-> <<"8">>, ticks |-> 15],
     [sfile |-> <<"a", "\\", "b", "/", "c", "d">>, sline |-> 1,
      sfunction |-> <<"h">>, smodule |-> <<"I", "O">>, sev |-> LEVEL_WARN,
      message |-> <<>>, time |-> <<"1", "2">>, date |-> <<>>, ticks |-> -1],
     [sfile |-> <<"c">>, sline |-> 30, sfunction |-> <<"k">>,
      smodule |-> <<"U">>, sev |-> LEVEL_INFO,
      message |-> <<"5", "%", "/">>, time |-> <<"9">>, date |-> <<"8">>,
      ticks |-> 3]}

InitFormat ==
    /\ fileSupport = FALSE
    /\ silent = FALSE
    /\ timeSupport \in BOOLEAN
    /\ win32 \in BOOLEAN
    /\ fd = 0
    /\ fun = CLOG_DEFAULT_MESSAGE_FUNCTION
    /\ openFds = {0, 1, 2}
    /\ stderr = <<>>
    /\ ops = 0
    /\ logs = 0
    /\ last = [op |-> "none"]
    /\ fmt \in Templates
    /\ \E c \in Contexts, moves \in BOOLEAN :
          ctx = [level |-> CLOG_LEVEL_NAMES[c.sev + 1], moves |-> moves] @@ c
    /\ fs = FormatEntry(MESSAGE_BUF, ScratchSize)
    /\ fpc = "loop"
    /\ now = 0
    /\ tmbuf = localtime(0)
    /\ th = [i \in Threads |-> NotCalling]
    /\ sinkData = <<>>
    /\ calls = <<>>

\* for (i = 0; i < fmtlen; ++i) { ... }
FormatStep ==
    /\ fpc = "loop"
    /\ fs.i < Len(fmt)
    /\ fs' = FormatIter(fs, MESSAGE_BUF, fmt[fs.i + 1], ctx)
    /\ UNCHANGED <<build, logger, ctx, fpc, conc, history>>

\* return result;
FormatReturn ==
    /\ fpc = "loop"
    /\ fs.i = Len(fmt)
    /\ fpc' = "returned"
    /\ UNCHANGED <<build, logger, ctx, fs, conc, history>>

NextFormat == FormatStep \/ FormatReturn

SpecFormat == InitFormat /\ [][NextFormat]_vars

-----------------------------------------------------------------------------
(* The expander on the template "%f", for every source path up to a length *)
(* over slashes, backslashes and two letters.                              *)

PathChars == {"/", "\\", "a", "b"}

InitBasename ==
    /\ fileSupport = FALSE
    /\ silent = FALSE
    /\ timeSupport = FALSE
    /\ win32 \in BOOLEAN
    /\ fd = 0
    /\ fun = CLOG_DEFAULT_MESSAGE_FUNCTION
    /\ openFds = {0, 1, 2}
    /\ stderr = <<>>
    /\ ops = 0
    /\ logs = 0
    /\ last = [op |-> "none"]
    /\ fmt = <<"%", "f">>
    /\ \E path \in SeqsUpTo(PathChars, MaxPathLen) :
          ctx = [sfile |-> path, sline |-> CallSite.sline,
                 sfunction |-> CallSite.sfunction, smodule |-> <<"N">>,
                 sev |-> LEVEL_INFO, level |-> CLOG_LEVEL_NAMES[LEVEL_INFO + 1],
                 message |-> <<"x">>, time |-> <<"9">>, date |-> <<"8">>,
                 ticks |-> 7, moves |-> TRUE]
    /\ fs = FormatEntry(MESSAGE_BUF, ScratchSize)
    /\ fpc = "loop"
    /\ now = 0
    /\ tmbuf = localtime(0)
    /\ th = [i \in Threads |-> NotCalling]
    /\ sinkData = <<>>
    /\ calls = <<>>

SpecBasename == InitBasename /\ [][NextFormat]_vars

-----------------------------------------------------------------------------
(* Concurrent log calls: each thread of Threads makes one call of          *)
(* _clog_log on the default logger and runs its _clog_format, one access   *)
(* to shared storage per step.  The wall clock advances between steps.     *)

\* The message thread i logs.
ThreadMessage(i) == IF i = 1 THEN <<"a">> ELSE <<"b">>

\* The arguments of thread i's _clog_format call; lt points at tmbuf.
ThreadContext(i) ==
    [sfile |-> CallSite.sfile, sline |-> CallSite.sline,
     sfunction |-> CallSite.sfunction, smodule |-> <<"N">>,
     sev |-> LEVEL_INFO, level |-> CLOG_LEVEL_NAMES[LEVEL_INFO + 1],
     message |-> ThreadMessage(i),
     time |-> strftime("time_fmt", tmbuf),
     date |-> strftime("date_fmt", tmbuf),
     ticks |-> 7, moves |-> TRUE]

InitThreads ==
    /\ fileSupport = FALSE
    /\ silent = FALSE
    /\ timeSupport \in BOOLEAN
    /\ win32 = FALSE
    /\ fd = 0
    /\ fun = CLOG_DEFAULT_MESSAGE_FUNCTION
    /\ fmt = CLOG_DEFAULT_FORMAT
    /\ openFds = {0, 1, 2}
    /\ stderr = <<>>
    /\ ops = 0
    /\ logs = 0
    /\ last = [op |-> "none"]
    /\ ctx = NoFormat
    /\ fs = NoFormat
    /\ fpc = "idle"
    /\ now = 0
    /\ tmbuf = localtime(0)
    /\ th = [i \in Threads |-> NotCalling]
    /\ sinkData = <<>>
    /\ calls = <<>>

\* A second passes.
Tick ==
    /\ now < MaxClock
    /\ now' = now + 1
    /\ UNCHANGED <<build, logger, ctx, fs, fpc, tmbuf, th, history>>

\* Thread i calls _clog_log, which formats the message into its own buffer
\* and calls _clog_format: cur_size = buf_size, result = buf, state = NORMAL.
ThreadEnter(i) ==
    /\ th[i].pc = "idle"
    /\ th' = [th EXCEPT ![i] =
                 [pc |-> IF timeSupport THEN "time" ELSE "loop", t |-> 0,
                  fs |-> FormatEntry(MESSAGE_BUF, FmtBufSize)]]
    /\ UNCHANGED <<build, logger, ctx, fs, fpc, now, tmbuf, history>>

\* time_t t = time(NULL);
ThreadTime(i) ==
    /\ th[i].pc = "time"
    /\ th' = [th EXCEPT ![i].t = now, ![i].pc = "localtime"]
    /\ UNCHANGED <<build, logger, ctx, fs, fpc, now, tmbuf, history>>

\* struct tm* lt = localtime(&t);
ThreadLocaltime(i) ==
    /\ th[i].pc = "localtime"
    /\ tmbuf' = localtime(th[i].t)
    /\ th' = [th EXCEPT ![i].pc = "loop"]
    /\ UNCHANGED <<build, logger, ctx, fs, fpc, now, history>>

\* One iteration of thread i's loop over logger->fmt.
ThreadStep(i) ==
    /\ th[i].pc = "loop"
    /\ th[i].fs.i < Len(fmt)
    /\ th' = [th EXCEPT ![i].fs = FormatIter(th[i].fs, MESSAGE_BUF,
                                             fmt[th[i].fs.i + 1],
                                             ThreadContext(i))]
    /\ UNCHANGED <<build, logger, ctx, fs, fpc, now, tmbuf, history>>

\* return result;
ThreadReturn(i) ==
    /\ th[i].pc = "loop"
    /\ th[i].fs.i = Len(fmt)
    /\ th' = [th EXCEPT ![i].pc = "returned"]
    /\ UNCHANGED <<build, logger, ctx, fs, fpc, now, tmbuf, history>>

NextThreads ==
    \/ Tick
    \/ \E i \in Threads : ThreadEnter(i)
    \/ \E i \in Threads : ThreadTime(i)
    \/ \E i \in Threads : ThreadLocaltime(i)
    \/ \E i \in Threads : ThreadStep(i)
    \/ \E i \in Threads : ThreadReturn(i)

SpecThreads == InitThreads /\ [][NextThreads]_vars

-----------------------------------------------------------------------------
(* One thread logging to one sink: the sink is selected before the first   *)
(* log call, and what it receives is kept.                                 *)

\* Deliver that puts the line before what the sink holds.
DeliverFirst(data, line) == <<line>> \o data

\* write(logger->fd, message, strlen(message)) on a descriptor opened with
\* O_APPEND, or logger->fun(message): the sink's content afterwards.
Deliver(data, line) == Append(data, line)

\* The inputs of the calls explored: a module at LEVEL_ERROR, two messages,
\* a message that does or does not format, a sink that works or fails.
OrderInputs ==
    {[smodule |-> <<"N">>, module_level |-> LEVEL_ERROR, text |-> t,
      r1 |-> r, r2 |-> r, sinkOk |-> ok, moves |-> TRUE, ub |-> <<>>] :
        t \in {<<"a">>, <<"b">>}, r \in {1}, ok \in BOOLEAN}
    \cup {[smodule |-> <<"N">>, module_level |-> LEVEL_ERROR, text |-> <<"a">>,
           r1 |-> -1, r2 |-> -1, sinkOk |-> TRUE, moves |-> TRUE, ub |-> <<>>]}

\* The call's line reached the sink.
Arrived(l) ==
    l.invoked /\ l.path = "delivered" /\ l.sink # "none" /\ l.result # -1

\* A log macro of level sev; the call returns after the sink has the line.
LogRecorded(sev) ==
    /\ logs < MaxCalls
    /\ \E in \in OrderInputs :
          /\ LogCall(sev, in)
          /\ calls' = Append(calls, [sev |-> sev, text |-> in.text,
                                     module_level |-> in.module_level,
                                     smodule |-> in.smodule,
                                     r1 |-> in.r1, sinkOk |-> in.sinkOk])
    /\ sinkData' = IF Arrived(last') THEN Deliver(sinkData, last'.emitted)
                   ELSE sinkData

InitOrder ==
    /\ fileSupport \in BOOLEAN
    /\ timeSupport \in BOOLEAN
    /\ silent = FALSE
    /\ win32 = FALSE
    /\ fd = 0
    /\ fun = CLOG_DEFAULT_MESSAGE_FUNCTION
    /\ fmt = CLOG_DEFAULT_FORMAT
    /\ openFds = {0, 1, 2}
    /\ stderr = <<>>
    /\ ops = 0
    /\ logs = 0
    /\ last = [op |-> "none"]
    /\ ctx = NoFormat
    /\ fs = NoFormat
    /\ fpc = "idle"
    /\ now = 0
    /\ tmbuf = localtime(0)
    /\ th = [i \in Threads |-> NotCalling]
    /\ sinkData = <<>>
    /\ calls = <<>>

\* The program selects its sink, then logs.
SelectSink ==
    /\ logs = 0
    /\ \E fails \in BOOLEAN : clog_init_file(fails)

NextOrder ==
    \/ SelectSink
    \/ LogRecorded(LEVEL_WARN)
    \/ LogRecorded(LEVEL_ERROR)

SpecOrder == InitOrder /\ [][NextOrder]_vars

-----------------------------------------------------------------------------
(* What an expansion is meant to be, stated without the scanner.           *)

LevelCode(sev) ==
    CASE sev = LEVEL_DEBUG -> <<"D">>
      [] sev = LEVEL_INFO -> <<"I">>
      [] sev = LEVEL_WARN -> <<"W">>
      [] sev = LEVEL_ERROR -> <<"E">>

Separators == IF win32 THEN {"/", "\\"} ELSE {"/"}

\* The final component of a path: its longest suffix without a separator.
FinalComponent(path) ==
    LET k == CHOOSE j \in 0..Len(path) :
                /\ \A q \in (j + 1)..Len(path) : path[q] \notin Separators
                /\ j > 0 => path[j] \in Separators
    IN  SubSeq(path, k + 1, Len(path))

TimeSelectors == {"t", "d", "h"}
Recognized == {"%", "l", "e", "g", "n", "f", "m"}
                \cup (IF timeSupport THEN TimeSelectors ELSE {})

\* The value a directive stands for.
Rendered(sel, c) ==
    CASE sel = "%" -> <<"%">>
      [] sel = "l" -> LevelCode(c.sev)
      [] sel = "e" -> c.smodule
      [] sel = "g" -> c.sfunction
      [] sel = "n" -> Dec(c.sline)
      [] sel = "f" -> FinalComponent(c.sfile)
      [] sel = "m" -> c.message
      [] sel = "t" /\ timeSupport -> c.time
      [] sel = "d" /\ timeSupport -> c.date
      [] sel = "h" /\ timeSupport -> Dec(c.ticks)
      [] OTHER -> <<>>

\* Left to right: literals verbatim, each directive replaced by its value.
RECURSIVE Expansion(_, _)
Expansion(t, c) ==
    IF t = <<>> THEN <<>>
    ELSE IF Head(t) # "%" THEN <<Head(t)>> \o Expansion(Tail(t), c)
    ELSE IF Len(t) = 1 THEN <<>>
    ELSE Rendered(t[2], c) \o Expansion(SubSeq(t, 3, Len(t)), c)

\* The scanner is in the NORMAL state when it reaches position p of t.
NormalAt(t, p) ==
    _clog_format(SubSeq(t, 1, p - 1), MESSAGE_BUF, ScratchSize, ctx).state
        = "NORMAL"

\* t without the two characters at p and p + 1.
WithoutDirective(t, p) == SubSeq(t, 1, p - 1) \o SubSeq(t, p + 2, Len(t))

Expand(t) == _clog_format(t, MESSAGE_BUF, ScratchSize, ctx).str

-----------------------------------------------------------------------------
(* Claims about the expander, under SpecFormat.                            *)

C6_CapacityIsSmallestDoubling ==
    fpc \in {"loop", "returned"} =>
        /\ fs.cur_size = fs.size
        /\ ~fs.overrun
        /\ Len(fs.str) + 1 <= fs.size
        /\ \E k \in 0..Len(fs.str) :
              /\ fs.cur_size = ScratchSize * (2 ^ k)
              /\ k > 0 => ScratchSize * (2 ^ (k - 1)) < Len(fs.str) + 1
        /\ (fpc = "returned" /\ Len(fs.str) > ScratchSize) =>
              fs.str = Expansion(fmt, ctx)

C6_Witness ==
    /\ fpc = "returned"
    /\ fs.cur_size = 4 * ScratchSize
    /\ fs.result # MESSAGE_BUF
    /\ Len(fs.str) > 2 * ScratchSize

\* C7: in the SUBST state the scanner consumes one selector and returns to
\* NORMAL; an unrecognized selector leaves the buffer and its capacity
\* unchanged, so the expansion equals that of the template without the
\* unknown directive.
C7_UnknownDirectiveIsInert ==
    /\ [][(fpc = "loop" /\ fs.state = "SUBST" /\ fs.i < Len(fmt)) =>
            /\ fs'.i = fs.i + 1
            /\ fs'.state = "NORMAL"
            /\ fmt[fs.i + 1] \notin Recognized =>
                  /\ fs'.str = fs.str
                  /\ fs'.cur_size = fs.cur_size
                  /\ fs'.size = fs.size
                  /\ fs'.result = fs.result]_vars
    /\ [](fpc = "returned" =>
            \A p \in 1..(Len(fmt) - 1) :
                (/\ fmt[p] = "%"
                 /\ NormalAt(fmt, p)
                 /\ fmt[p + 1] \notin Recognized)
                => fs.str = Expand(WithoutDirective(fmt, p)))

C7_Witness ==
    /\ fpc = "returned"
    /\ fmt = <<"%", "z", "%", "m">>
    /\ ctx.message = <<"x">>
    /\ fs.str = <<"x">>

\* C8: a template ending in a lone '%' expands as the template without that
\* final character does.
C8_TrailingPercentDropped ==
    (/\ fpc = "returned"
     /\ Len(fmt) > 0
     /\ fmt[Len(fmt)] = "%"
     /\ NormalAt(fmt, Len(fmt)))
    => fs.str = Expand(SubSeq(fmt, 1, Len(fmt) - 1))

C8_Witness ==
    /\ fpc = "returned"
    /\ fmt = <<"z", "%", "m", "%">>
    /\ ctx.message = <<"x">>
    /\ fs.str = <<"z", "x">>

-----------------------------------------------------------------------------
(* Claims about the logger, under Spec.                                    *)

\* The tests _clog_log dispatches on.
FdSet == fileSupport /\ fd # 0
FunSet == fun # NULL

\* The step is a log macro call.
LogStep == logs' = logs + 1

\* C1: after any sequence of clog_init_file, clog_init_console and
\* clog_close_file calls exactly one of the file sink (fd set) and the
\* console sink (fun set) is active; a successful clog_init_file leaves the
\* file sink active, a successful clog_init_console the console sink.
C1_ExactlyOneSink ==
    /\ FdSet # FunSet
    /\ (last.op = "init_file" /\ (last.opened \/ last.ret = 0))
          => (FdSet /\ ~FunSet)
    /\ (last.op = "init_console" /\ last.ret = 0) => (FunSet /\ ~FdSet)

\* C2: a log macro of severity s on a module of level m invokes _clog_log
\* if and only if s >= m; otherwise the call changes nothing and writes no
\* diagnostic, so a module at LEVEL_NONE never logs.
C2_LevelGate ==
    [][LogStep =>
        /\ last'.invoked <=> last'.sev >= last'.module_level
        /\ last'.module_level = LEVEL_NONE => ~last'.invoked
        /\ ~last'.invoked =>
              /\ UNCHANGED <<fd, fun, fmt, openFds, stderr>>
              /\ last'.emitted = <<>>
              /\ last'.allocd = {}]_vars

C2_Witness ==
    /\ last.op = "log"
    /\ last.sev = LEVEL_WARN
    /\ last.module_level = LEVEL_ERROR
    /\ ~last.invoked

\* C4: clog_init_file returns zero when the file was opened and installed
\* as the sink, and non-zero when it could not be opened.
C4_InitFileReturn ==
    last.op = "init_file" =>
        /\ last.opened => last.ret = 0
        /\ (last.tried /\ ~last.opened) => last.ret # 0

Occurrences(x, seq) == Cardinality({k \in DOMAIN seq : seq[k] = x})

\* C5: on every exit path of _clog_log each heap region allocated during the
\* call is released exactly once, no stack buffer is passed to free, and the
\* expansion result is freed if and only if it is not the scratch buffer.
C5_HeapReleasedOnce ==
    (last.op = "log" /\ last.invoked) =>
        /\ \A r \in last.allocd :
              Occurrences(r, last.frees \o last.released) = 1
        /\ \A k \in DOMAIN last.frees : last.frees[k] \in last.allocd
        /\ last.path = "delivered" =>
              (Occurrences(last.message, last.frees) = 1
                  <=> last.message # MESSAGE_BUF)

C5_Witness ==
    /\ last.op = "log"
    /\ last.path = "delivered"
    /\ last.dynbuf = 1
    /\ last.message \notin {MESSAGE_BUF, 2}
    /\ Len(last.released) > 0
    /\ Len(last.frees) = 2

\* A call that delivers from the two stack buffers.
C5_WitnessScratch ==
    /\ last.op = "log"
    /\ last.path = "delivered"
    /\ last.dynbuf = BUF
    /\ last.message = MESSAGE_BUF
    /\ last.frees = <<>>

\* The message step of the call fails: the first pass reports an error, or
\* the second pass reports a size that does not fit the sized buffer.
RenderingFails(l) ==
    \/ l.r1 < 0
    \/ l.r1 >= MsgBufSize /\ (l.r2 < 0 \/ l.r2 >= l.r1 + 1)

\* C9: when rendering the user message fails the sink is not invoked, no
\* line is produced and exactly one diagnostic is written.
C9_RenderFailureAbandons ==
    [][(LogStep /\ last'.invoked /\ RenderingFails(last')) =>
        /\ last'.sink = "none"
        /\ last'.emitted = <<>>
        /\ Len(stderr') = Len(stderr) + 1]_vars

\* C9 as amended: ... and exactly one diagnostic is written, none in a
\* build with CLOG_SILENT.
C9_RenderFailureAbandonsUnlessSilent ==
    [][(LogStep /\ last'.invoked /\ RenderingFails(last')) =>
        /\ last'.sink = "none"
        /\ last'.emitted = <<>>
        /\ last'.path = "failed1"
        /\ stderr' = IF silent THEN stderr ELSE Append(stderr, "format1")
        /\ UNCHANGED <<fd, fun, openFds>>]_vars

C9_Witness ==
    /\ last.op = "log"
    /\ last.invoked
    /\ last.r1 >= MsgBufSize
    /\ last.r2 = last.r1 + 1
    /\ last.path = "failed1"
    /\ stderr = <<"format1">>

\* The delivery of the call was attempted and the sink reported failure.
DeliveryFailed(l) ==
    \/ l.sink = "file" /\ (~l.sinkOk \/ l.wfd \notin openFds)
    \/ l.sink = "console" /\ ~l.sinkOk

AllReleased(l) ==
    \A r \in l.allocd : Occurrences(r, l.frees \o l.released) = 1

\* C10: a call that reaches the delivery step writes a sink-failure
\* diagnostic if and only if the sink's delivery reported failure, and
\* releases its buffers in every case.
C10_SinkFailureDiagnosed ==
    [][(LogStep /\ last'.path = "delivered") =>
        /\ (stderr' = Append(stderr, "write")) <=> DeliveryFailed(last')
        /\ ~DeliveryFailed(last') => stderr' = stderr
        /\ AllReleased(last')]_vars

\* C10 as amended: ... if and only if the delivery reported failure and the
\* build is not one with CLOG_SILENT.
C10_SinkFailureDiagnosedUnlessSilent ==
    [][(LogStep /\ last'.path = "delivered") =>
        /\ (stderr' = Append(stderr, "write"))
              <=> (DeliveryFailed(last') /\ ~silent)
        /\ (~DeliveryFailed(last') \/ silent) => stderr' = stderr
        /\ AllReleased(last')]_vars

C10_Witness ==
    /\ last.op = "log"
    /\ last.path = "delivered"
    /\ last.sink = "file"
    /\ last.wfd \in openFds
    /\ ~last.sinkOk
    /\ stderr = <<"write">>

-----------------------------------------------------------------------------
(* Claims about the message step and the delivery, under Spec.             *)

\* C11: for a message of M characters the message step keeps the stack
\* buffer when M is below its size and otherwise allocates exactly M + 1
\* bytes and formats once more; either way the message handed to the
\* expander is the complete M-character message, at M one below the
\* buffer's size and at exactly that size too.
C11_MessageStepComplete ==
    (last.op = "log" /\ last.invoked /\ last.r1 = Len(last.text)) =>
        /\ Len(last.text) < MsgBufSize =>
              (last.dynbuf = BUF /\ last.buf_size = MsgBufSize)
        /\ Len(last.text) >= MsgBufSize =>
              (last.dynbuf # BUF /\ last.buf_size = Len(last.text) + 1)
        /\ last.path = "delivered"
        /\ last.user = last.text
        /\ Len(last.user) = Len(last.text)

\* The line thread i's call produces when no other call runs: the
\* expansion of the template at the time the call read from the clock.
LineAlone(i) ==
    Expansion(fmt, [ThreadContext(i) EXCEPT
                       !.time = strftime("time_fmt", localtime(th[i].t)),
                       !.date = strftime("date_fmt", localtime(th[i].t))])

\* C12: the expansion stage of concurrent log calls uses only call-local
\* state, the time, date and tick directives of a build with time support
\* included: each call's line is the line it would produce running alone.
C12_ConcurrentExpansionIsolated ==
    \A i \in Threads :
        th[i].pc = "returned" => th[i].fs.str = LineAlone(i)

-----------------------------------------------------------------------------
(* Claims about the order of delivery, under SpecOrder.                    *)

\* The line the call c is to produce.
ExpectedLine(c) ==
    Expansion(fmt, [sfile |-> CallSite.sfile, sline |-> CallSite.sline,
                    sfunction |-> CallSite.sfunction, smodule |-> c.smodule,
                    sev |-> c.sev, message |-> c.text, time |-> <<"9">>,
                    date |-> <<"8">>, ticks |-> 7])

\* The call c passes the gate, formats, and its delivery succeeds.
Delivers(c) ==
    /\ c.sev >= c.module_level
    /\ c.r1 >= 0
    /\ c.sinkOk
    /\ FdSet \/ FunSet

\* The lines of the calls cs that deliver, in the order of the calls.
RECURSIVE DeliveredLines(_)
DeliveredLines(cs) ==
    IF cs = <<>> THEN <<>>
    ELSE (IF Delivers(Head(cs)) THEN <<ExpectedLine(Head(cs))>> ELSE <<>>)
         \o DeliveredLines(Tail(cs))

\* C13: with one thread and an unchanged sink, the sink holds the lines of
\* the calls that delivered, in the order the calls were made, each exactly
\* once and each there when its call has returned.
C13_DeliveredInCallOrder == sinkData = DeliveredLines(calls)

C13_Witness ==
    /\ FdSet
    /\ Len(calls) = 3
    /\ calls[1].text = <<"a">> /\ Delivers(calls[1])
    /\ ~Delivers(calls[2])
    /\ calls[3].text = <<"b">> /\ Delivers(calls[3])
    /\ Len(sinkData) = 2
    /\ sinkData[1] # sinkData[2]

-----------------------------------------------------------------------------
(* Claims about the source path, under SpecBasename.                       *)

HasSeparator(str) == \E k \in 1..Len(str) : str[k] \in Separators

\* C14: the text substituted for %f is what follows the last '/' of the
\* source path and, where backslashes separate too, the last '\' as well,
\* in whatever mixture and order the two occur: it is the final component,
\* holds no separator, and is the whole path when the path holds none.
C14_FileIsFinalComponent ==
    fpc = "returned" =>
        /\ fs.str = FinalComponent(ctx.sfile)
        /\ ~HasSeparator(fs.str)
        /\ \E k \in 0..Len(ctx.sfile) :
              /\ fs.str = SubSeq(ctx.sfile, k + 1, Len(ctx.sfile))
              /\ k > 0 => ctx.sfile[k] \in Separators
        /\ ~HasSeparator(ctx.sfile) => fs.str = ctx.sfile

\* A backslash after the last slash, and a slash after the last backslash.
C14_Witness ==
    /\ fpc = "returned"
    /\ win32
    /\ ctx.sfile = <<"a", "/", "\\", "b">>
    /\ fs.str = <<"b">>

C14_WitnessSlashLast ==
    /\ fpc = "returned"
    /\ win32
    /\ ctx.sfile = <<"\\", "b", "/", "a">>
    /\ fs.str = <<"a">>

-----------------------------------------------------------------------------
(* Further claims about the expander, under SpecFormat.                    *)

\* The level names of the directive documentation.
LevelWord(sev) ==
    CASE sev = LEVEL_DEBUG -> <<"D", "E", "B", "U", "G">>
      [] sev = LEVEL_INFO -> <<"I", "N", "F", "O">>
      [] sev = LEVEL_WARN -> <<"W", "A", "R", "N">>
      [] sev = LEVEL_ERROR -> <<"E", "R", "R", "O", "R">>

\* C15: the %l directive expands to the level of the call written as one
\* of "DEBUG", "INFO", "WARN" and "ERROR", for a call made through LOG_D,
\* LOG_I, LOG_W and LOG_E respectively.
C15_LevelWrittenAsWord ==
    (fpc = "returned" /\ fmt = <<"%", "l">>) => fs.str = LevelWord(ctx.sev)

\* s is an initial part of u.
IsPrefix(s, u) == Len(s) <= Len(u) /\ SubSeq(u, 1, Len(s)) = s

\* C17: during one expansion the first append that needs growth copies the
\* whole scratch content into the region it allocates before appending;
\* from then on appends and growths work on owned regions only, so the
\* scratch buffer's bytes no longer change; and the content before any
\* step is a prefix of the content after it.
C17_GrowthKeepsContent ==
    [][/\ IsPrefix(fs.str, fs'.str)
       /\ (fs.result = MESSAGE_BUF /\ fs'.result # MESSAGE_BUF) =>
             /\ fs.orig = fs.str
             /\ IsPrefix(fs.orig, fs'.str)
             /\ fs'.orig = fs.orig
             /\ fs'.result \notin fs.allocd
       /\ fs.result # MESSAGE_BUF =>
             /\ fs'.result # MESSAGE_BUF
             /\ fs'.orig = fs.orig]_vars

C17_Witness ==
    /\ fpc = "returned"
    /\ fmt = <<"z", "%", "m", "z">>
    /\ ctx.message = Fill("y", (2 * ScratchSize) + 1)
    /\ fs.result # MESSAGE_BUF
    /\ fs.orig = <<"z">>
    /\ fs.str = <<"z">> \o ctx.message \o <<"z">>

\* A growth of an owned region: the scratch buffer was left empty.
C17_WitnessRegrown ==
    /\ fpc = "returned"
    /\ fmt = <<"%", "m", "%", "m">>
    /\ ctx.message = Fill("y", (2 * ScratchSize) + 1)
    /\ Len(fs.released) > 0
    /\ fs.orig = <<>>
    /\ fs.str = ctx.message \o ctx.message

-----------------------------------------------------------------------------
(* Claims about the descriptor and the sinks, under Spec.                  *)

\* C18: in every state reachable by clog_init_file, clog_init_console,
\* clog_close_file and log calls the descriptor stored in the logger is 0
\* or a descriptor that is open: no log call writes to a descriptor that
\* was closed, and no descriptor is closed a second time.
C18_DescriptorOpenOrZero ==
    /\ FdSet => fd \in openFds
    /\ (last.op = "log" /\ last.invoked /\ last.path = "delivered"
          /\ last.sink = "file") => last.wfd \in openFds
    /\ (last.op = "close_file" /\ last.closed # 0) => last.wasOpen

\* The step is a sink selection that cannot succeed: clog_init_console with
\* a null function, or clog_init_file with a path that cannot be opened.
FailedSelection ==
    /\ ops' = ops + 1
    /\ \/ last'.op = "init_console" /\ last'.arg = NULL
       \/ last'.op = "init_file" /\ last'.unopenable

\* C19: a failed sink selection returns non-zero, writes one diagnostic and
\* leaves the logger's fd and fun exactly as they were, so later log calls
\* go to the sink that was active before.
C19_FailedSelectionKeepsSink ==
    [][FailedSelection =>
          /\ last'.ret # 0
          /\ Len(stderr') = Len(stderr) + 1
          /\ UNCHANGED <<fd, fun>>]_vars

\* C20: with the console sink active, the text the console function emits
\* for a log call is, byte for byte, the line the expander produced, also
\* when that line holds '%' characters.
C20_ConsoleEmitsLine ==
    (last.op = "log" /\ last.invoked /\ last.path = "delivered"
        /\ last.sink = "console" /\ last.result # -1) =>
        last.emitted = last.line

====
